---- MODULE Spec2Model ----
(***************************************************************************)
(* zerosh job control: the Worker thread of src/zerosh/src/shell.rs, the   *)
(* main (front end) thread, the signal relay thread and the part of the    *)
(* operating system they talk to (process table, wait statuses, pending    *)
(* signals, controlling terminal).                                         *)
(*                                                                         *)
(* Option<T> is modelled as a sequence: <<>> is None, <<x>> is Some(x).    *)
(* Maps (BTreeMap, HashMap) are functions whose DOMAIN is the key set.     *)
(* The display text of a job is left out of the jobs table: no decision    *)
(* of the Worker reads it.                                                 *)
(***************************************************************************)
EXTENDS Integers, Sequences, FiniteSets, TLC

\* ---------------------------------------------------------------- bounds
\* process ids the operating system hands out to children of the shell
MaxPid == 2
\* jobs on one input line
MaxJobsPerLine == 2
\* stages of the longest pipeline
MaxStages == 3
\* lines waiting in the Worker's queue
MaxQueue == 1

\* SIGCHLD messages waiting in the Worker's queue
MaxSigchld == 1

\* ------------------------------------------------------------- constants
\* largest job id get_new_job_id tries (usize::MAX, as far as TLC's
\* integers reach)
UsizeMax == 2147483647
SIGINT == 2
SIGTSTP == 20
SIGCHLD == 17
\* the shell's own process group (tcgetpgrp at start-up); no child has it
ShellPgid == 0
\* the status of a child whose execvp failed (do_pipeline: exit(1))
ExecFailStatus == 1

Pids == 1..MaxPid
\* exit statuses of children, arguments of exit, arguments of fg (run_fg
\* takes any i32; the parser's int32 reads digits only, so a line gives none
\* below 0)
ChildStatus == {ExecFailStatus}
KillSignals == {SIGINT}
\* signals the terminal sends to the shell itself
KeySignals == {SIGINT}
ExitArgs == {<<>>, <<3>>}
FgArgs == {-1, 0, 1}

None == <<>>
Some(x) == <<x>>

\* ----------------------------------------------------------------- maps
Insert(m, k, v) == [x \in DOMAIN m \cup {k} |-> IF x = k THEN v ELSE m[x]]
Remove(m, k) == [x \in DOMAIN m \ {k} |-> m[x]]
EmptyMap == [x \in {} |-> 0]

\* ------------------------------------------------------------- messages
Continue(n) == [type |-> "Continue", val |-> n]
Quit(n) == [type |-> "Quit", val |-> n]
Signal(sig) == [type |-> "Signal", sig |-> sig]
Cmd(line) == [type |-> "Cmd", line |-> line]

\* ----------------------------------------------------- parsed commands
BuiltIn(cmd, arg) == [kind |-> "BuiltIn", cmd |-> cmd, arg |-> arg, n |-> 0, is_bg |-> FALSE]
External(n, is_bg) == [kind |-> "External", cmd |-> "", arg |-> <<>>, n |-> n, is_bg |-> is_bg]

BuiltInJobs ==
  {BuiltIn("Exit", a) : a \in ExitArgs} \cup {BuiltIn("Jobs", <<>>)}
  \cup {BuiltIn("Fg", <<n>>) : n \in FgArgs}
  \cup {BuiltIn("Cd", <<ok>>) : ok \in BOOLEAN}

ExternalJobs == {External(n, b) : n \in {1, MaxStages}, b \in BOOLEAN}

AllJobs == BuiltInJobs \cup ExternalJobs


\* ------------------------------------------------- operating system side
\* The process table holds the children of the shell, the only processes
\* waitpid(-1) reports: one entry per pid in Pids.  A child is the first
\* process of its pipeline and the leader of its process group, so its pid is
\* also its pgid.  st: "free" (no such process), "run", "stop", "zombie"
\* (terminated, not yet waited for).  ev: the wait status pending for the
\* shell, if any.  The other processes of a pipeline are children of that
\* child; the shell never hears of them and they get pids outside Pids.
FreeProc == [st |-> "free", ev |-> None]
NewProc == [st |-> "run", ev |-> None]
WaitStatus(kind, val) == [kind |-> kind, val |-> val]
OtherPid(k) == MaxPid + k

\* pids fork may return to the shell
FreePids(procs) == {p \in Pids : procs[p].st = "free"}

\* children of the shell with a wait status pending
Pending(procs) == {p \in Pids : procs[p].ev # None}

\* what one waitpid(-1, WUNTRACED | WNOHANG | WCONTINUED) leaves behind for
\* the child it reported: a zombie is released, a live child loses the status
Reaped(proc) == IF proc.st = "zombie" THEN FreeProc ELSE [proc EXCEPT !.ev = None]

\* faulty variant of GroupExists (sensitivity of C23): a group whose leader
\* has ended and is not yet waited for counts as gone
GroupExists_live_only(procs, pgid) == pgid \in Pids /\ procs[pgid].st \in {"run", "stop"}

\* a process group has members as long as its leader has not been waited for
GroupExists(procs, pgid) == pgid \in Pids /\ procs[pgid].st # "free"

\* killpg(pgid, SIGCONT): a stopped member runs again and reports it
ContinueGroup(procs, pgid) ==
  [p \in Pids |->
     IF p = pgid /\ procs[p].st = "stop"
       THEN [st |-> "run", ev |-> Some(WaitStatus("Continued", 0))]
       ELSE procs[p]]

\* all sequences without repetition over S, of length at most n
RECURSIVE InjSeqs(_, _)
InjSeqs(S, n) ==
  IF n = 0 \/ S = {} THEN {<<>>}
  ELSE {<<>>} \cup UNION {{<<x>> \o r : r \in InjSeqs(S \ {x}, n - 1)} : x \in S}

Perms(S) == {q \in InjSeqs(S, Cardinality(S)) : Len(q) = Cardinality(S)}

\* ------------------------------------------------------------ launcher
ProcInfo(state, pgid) == [state |-> state, pgid |-> pgid]

\* the three standard descriptors of a process: what each refers to
Tty == [kind |-> "tty", id |-> 0, flags |-> {}]
PipeRead(id) == [kind |-> "pipe_read", id |-> id, flags |-> {}]
PipeWrite(id) == [kind |-> "pipe_write", id |-> id, flags |-> {}]
File(flags) == [kind |-> "file", id |-> 0, flags |-> flags]
ShellFds == [stdin |-> Tty, stdout |-> Tty, stderr |-> Tty]

\* model::Redirection, without the path
Redirections == {"StdOut", "Both", "Append"}

\* the closure handle_redirect of do_pipeline: the one pattern it matches is
\* the plain kind (written Redirection::Stdout in shell.rs); open with
\* O_WRONLY | O_CREAT, close(1), dup2(fd, 1), close(fd)
handle_redirect(redirect, fds) ==
  IF redirect = Some("StdOut")
    THEN [fds EXCEPT !.stdout = File({"O_WRONLY", "O_CREAT"})]
    ELSE fds

\* do_pipeline, run by process `me` for the first n stages of the pipeline;
\* fresh: the pids its forks return (the fork after the last fails); pids: this
\* process's own copy of the map; pgid: the group `me` is in; fds: its
\* descriptors on entry; cmds: the redirect of each stage.  A pipe is named
\* by the pid of the child forked right after it was made.  The result has
\* one entry per process: the stage it execs (0: it panicked before exec),
\* the redirect of that stage's command, its copy of pids, its group and
\* its descriptors at that moment.
RECURSIVE do_pipeline(_, _, _, _, _, _, _)
do_pipeline(n, me, fresh, pids, pgid, fds, cmds) ==
  IF n = 1
    THEN {[pid |-> me, stage |-> 1, pids |-> pids, pgid |-> pgid,
           redirect |-> cmds[1], fds |-> handle_redirect(cmds[1], fds)]}
  ELSE IF fresh = <<>>
    THEN {[pid |-> me, stage |-> 0, pids |-> pids, pgid |-> pgid,
           redirect |-> cmds[n], fds |-> fds]}
  ELSE LET child == Head(fresh) IN
       do_pipeline(n - 1, child, Tail(fresh), pids, pgid,
                   [fds EXCEPT !.stdout = PipeWrite(child)], cmds)
       \cup {[pid |-> me, stage |-> n, pgid |-> pgid, redirect |-> cmds[n],
               pids |-> Insert(pids, child, ProcInfo("Run", pgid)),
               fds |-> [handle_redirect(cmds[n], fds) EXCEPT !.stdin = PipeRead(child)]]}

\* what a launch leaves behind of each process: no copy of pids
Created(c) ==
  [pid |-> c.pid, stage |-> c.stage, pgid |-> c.pgid, redirect |-> c.redirect, fds |-> c.fds]

\* faulty variant of fork_exec (sensitivity of C20): the child is recorded
\* with the process group of the shell
fork_exec_shell_pgid(n, ok, child, forks, cmds) ==
  IF ~ok THEN [ok |-> FALSE, pgid |-> 0, pids |-> EmptyMap, created |-> {}]
  ELSE LET pids == Insert(EmptyMap, child, ProcInfo("Run", ShellPgid)) IN
       [ok |-> TRUE, pgid |-> child, pids |-> pids,
        created |-> {Created(c) : c \in do_pipeline(n, child, [k \in 1..forks |-> OtherPid(k)],
                                                     pids, child, ShellFds, cmds)}]

\* fork_exec in the shell: the parent's pids gets the first child only; what
\* do_pipeline inserts happens in the children's address spaces.
fork_exec(n, ok, child, forks, cmds) ==
  IF ~ok THEN [ok |-> FALSE, pgid |-> 0, pids |-> EmptyMap, created |-> {}]
  ELSE LET pids == Insert(EmptyMap, child, ProcInfo("Run", child)) IN
       [ok |-> TRUE, pgid |-> child, pids |-> pids,
        created |-> {Created(c) : c \in do_pipeline(n, child, [k \in 1..forks |-> OtherPid(k)],
                                                     pids, child, ShellFds, cmds)}]

\* ------------------------------------------------------------- registry
\* a Worker step works on a record s: the Worker's fields, the terminal and
\* process table it acts on through system calls, and what the step did
Panic(s) == [s EXCEPT !.panic = TRUE]

send(s, m) == IF s.panic THEN s ELSE [s EXCEPT !.sent = Append(@, m)]

\* faulty variant of get_new_job_id (sensitivity of C29): the id after the
\* largest one in use
get_new_job_id_after_last(jobs) ==
  IF jobs = EmptyMap THEN Some(0)
  ELSE Some(1 + CHOOSE i \in DOMAIN jobs : \A j \in DOMAIN jobs : j <= i)

get_new_job_id(jobs) ==
  LET free == {i \in 0..Cardinality(DOMAIN jobs) : i \notin DOMAIN jobs /\ i <= UsizeMax} IN
  IF free = {} THEN None ELSE Some(CHOOSE i \in free : \A j \in free : i <= j)

insert_job(s, job_id, pgid, pids) ==
  IF s.panic THEN s
  ELSE IF job_id \in DOMAIN s.jobs THEN Panic(s)
  ELSE LET s1 == [s EXCEPT !.jobs = Insert(@, job_id, pgid)] IN
       IF DOMAIN pids \cap DOMAIN s1.pid_to_info # {} THEN Panic(s1)
       ELSE LET s2 == [s1 EXCEPT !.pid_to_info =
                          [p \in DOMAIN @ \cup DOMAIN pids |-> IF p \in DOMAIN pids THEN pids[p] ELSE @[p]]] IN
            IF pgid \in DOMAIN s2.pgid_to_pids THEN Panic(s2)
            ELSE [s2 EXCEPT !.pgid_to_pids = Insert(@, pgid, [job_id |-> job_id, pids |-> DOMAIN pids])]

set_pid_state(s, pid, state) ==
  IF s.panic \/ pid \notin DOMAIN s.pid_to_info THEN s
  ELSE [s EXCEPT !.pid_to_info[pid].state = state]

\* the value remove_pid returns
remove_pid_ret(s, pid) ==
  IF pid \notin DOMAIN s.pid_to_info THEN None
  ELSE LET pgid == s.pid_to_info[pid].pgid IN
       IF pgid \notin DOMAIN s.pgid_to_pids THEN None
       ELSE Some([job_id |-> s.pgid_to_pids[pgid].job_id, pgid |-> pgid])

\* the state remove_pid leaves
remove_pid(s, pid) ==
  IF s.panic \/ remove_pid_ret(s, pid) = None THEN s
  ELSE [s EXCEPT !.pgid_to_pids[s.pid_to_info[pid].pgid].pids = @ \ {pid}]

\* faulty variant of remove_job (sensitivity of C18): the entry of
\* pgid_to_pids is left behind
remove_job_keeps_group(s, job_id) ==
  IF s.panic \/ job_id \notin DOMAIN s.jobs THEN s
  ELSE [s EXCEPT !.jobs = Remove(@, job_id)]

remove_job(s, job_id) ==
  IF s.panic \/ job_id \notin DOMAIN s.jobs THEN s
  ELSE LET pgid == s.jobs[job_id]
           s1 == [s EXCEPT !.jobs = Remove(@, job_id)] IN
       IF pgid \notin DOMAIN s1.pgid_to_pids THEN s1
       ELSE LET s2 == [s1 EXCEPT !.pgid_to_pids = Remove(@, pgid)] IN
            IF s1.pgid_to_pids[pgid].pids # {} THEN Panic(s2) ELSE s2

\* is_group_empty and is_group_stop answer "panic" where the code unwraps None
is_group_empty(s, pgid) ==
  IF pgid \notin DOMAIN s.pgid_to_pids THEN "panic"
  ELSE IF s.pgid_to_pids[pgid].pids = {} THEN "true" ELSE "false"

is_group_stop(s, pgid) ==
  IF pgid \notin DOMAIN s.pgid_to_pids THEN "None"
  ELSE LET pids == s.pgid_to_pids[pgid].pids IN
       IF \E pid \in pids : pid \notin DOMAIN s.pid_to_info THEN "panic"
       ELSE IF \E pid \in pids : s.pid_to_info[pid].state = "Run" THEN "false"
       ELSE "true"

\* faulty variant of set_shell_fg (sensitivity of C3): the Continue is left out
set_shell_fg_silent(s) ==
  IF s.panic THEN s
  ELSE [s EXCEPT !.fg = None, !.tty = ShellPgid]

\* faulty variant of set_shell_fg (sensitivity of C35): fg is cleared and
\* the terminal is left with the job's group
set_shell_fg_keeps_tty(s) ==
  IF s.panic THEN s
  ELSE send([s EXCEPT !.fg = None], Continue(s.exit_val))

set_shell_fg(s) ==
  IF s.panic THEN s
  ELSE send([s EXCEPT !.fg = None, !.tty = ShellPgid], Continue(s.exit_val))

\* faulty variant of manage_job (sensitivity of C2): an emptied foreground
\* job is removed, and fg and the terminal are left with its group
manage_job_fg_kept(s, job_id, pgid) ==
  IF s.panic THEN s
  ELSE IF job_id \notin DOMAIN s.jobs THEN Panic(s)
  ELSE LET empty == is_group_empty(s, pgid)
           stop == is_group_stop(s, pgid) IN
       IF empty = "panic" THEN Panic(s)
       ELSE IF s.fg = Some(pgid)
         THEN IF empty = "true" THEN remove_job(s, job_id)
              ELSE IF stop \in {"None", "panic"} THEN Panic(s)
              ELSE IF stop = "true" THEN set_shell_fg(s)
              ELSE s
         ELSE IF empty = "true" THEN remove_job(s, job_id) ELSE s

\* faulty variant of manage_job (sensitivity of C8): the test `fg == pgid`
\* is left out, every job is handled as the foreground job
manage_job_any_fg(s, job_id, pgid) ==
  IF s.panic THEN s
  ELSE IF job_id \notin DOMAIN s.jobs THEN Panic(s)
  ELSE LET empty == is_group_empty(s, pgid)
           stop == is_group_stop(s, pgid) IN
       IF empty = "panic" THEN Panic(s)
       ELSE IF empty = "true" THEN set_shell_fg(remove_job(s, job_id))
       ELSE IF stop \in {"None", "panic"} THEN Panic(s)
       ELSE IF stop = "true" THEN set_shell_fg(s)
       ELSE s

\* faulty variant of manage_job (sensitivity of C19): an emptied job is
\* removed only when it is the foreground job
manage_job_fg_only(s, job_id, pgid) ==
  IF s.panic THEN s
  ELSE IF job_id \notin DOMAIN s.jobs THEN Panic(s)
  ELSE LET empty == is_group_empty(s, pgid)
           stop == is_group_stop(s, pgid) IN
       IF empty = "panic" THEN Panic(s)
       ELSE IF s.fg = Some(pgid)
         THEN IF empty = "true" THEN set_shell_fg(remove_job(s, job_id))
              ELSE IF stop \in {"None", "panic"} THEN Panic(s)
              ELSE IF stop = "true" THEN set_shell_fg(s)
              ELSE s
         ELSE s

manage_job(s, job_id, pgid) ==
  IF s.panic THEN s
  ELSE IF job_id \notin DOMAIN s.jobs THEN Panic(s)
  ELSE LET empty == is_group_empty(s, pgid)
           stop == is_group_stop(s, pgid) IN
       IF empty = "panic" THEN Panic(s)
       ELSE IF s.fg = Some(pgid)
         THEN IF empty = "true" THEN set_shell_fg(remove_job(s, job_id))
              ELSE IF stop \in {"None", "panic"} THEN Panic(s)
              ELSE IF stop = "true" THEN set_shell_fg(s)
              ELSE s
         ELSE IF empty = "true" THEN remove_job(s, job_id) ELSE s


\* ------------------------------------------------------------ built-ins
\* faulty variant of run_exit (sensitivity of C9): the jobs table is not looked at
run_exit_always_quits(s, n) ==
  send(s, Quit(IF n = None THEN s.exit_val ELSE n[1]))

run_exit(s, n) ==
  IF s.jobs # EmptyMap
    THEN LET s1 == [s EXCEPT !.exit_val = 1] IN send(s1, Continue(s1.exit_val))
    ELSE send(s, Quit(IF n = None THEN s.exit_val ELSE n[1]))

\* the ids of the live jobs in ascending order (BTreeMap iteration)
RECURSIVE SortedIds(_)
SortedIds(S) ==
  IF S = {} THEN <<>>
  ELSE LET m == CHOOSE i \in S : \A j \in S : i <= j IN <<m>> \o SortedIds(S \ {m})

\* faulty variant of run_jobs (sensitivity of C11): the status of the
\* command before is sent back, exit_val is not set to 0
run_jobs_keeps_status(s) ==
  LET ids == SortedIds(DOMAIN s.jobs) IN
  IF \E i \in DOMAIN s.jobs : is_group_stop(s, s.jobs[i]) \in {"None", "panic"} THEN Panic(s)
  ELSE LET s1 == [s EXCEPT !.printed = [k \in 1..Len(ids) |->
                              [job_id |-> ids[k],
                               state |-> IF is_group_stop(s, s.jobs[ids[k]]) = "true"
                                           THEN "Stopped" ELSE "Running"]]] IN
       send(s1, Continue(s1.exit_val))

run_jobs(s) ==
  LET ids == SortedIds(DOMAIN s.jobs) IN
  IF \E i \in DOMAIN s.jobs : is_group_stop(s, s.jobs[i]) \in {"None", "panic"} THEN Panic(s)
  ELSE LET s1 == [s EXCEPT !.exit_val = 0,
                           !.printed = [k \in 1..Len(ids) |->
                              [job_id |-> ids[k],
                               state |-> IF is_group_stop(s, s.jobs[ids[k]]) = "true"
                                           THEN "Stopped" ELSE "Running"]]] IN
       send(s1, Continue(s1.exit_val))

\* `*n as usize`: a negative i32 wraps to the top of the usize range
as_usize(n) == IF n < 0 THEN UsizeMax + (n + 1) ELSE n

\* faulty variant of run_fg (sensitivity of C10): the job is unwrapped
\* instead of looked for
run_fg_unchecked(s, n) ==
  LET s1 == [s EXCEPT !.exit_val = 1] IN
  IF as_usize(n) \in DOMAIN s1.jobs
    THEN LET pgid == s1.jobs[as_usize(n)] IN
         IF ~GroupExists(s1.procs, pgid) THEN Panic([s1 EXCEPT !.fg = Some(pgid)])
         ELSE [s1 EXCEPT !.fg = Some(pgid), !.tty = pgid,
                         !.procs = ContinueGroup(@, pgid),
                         !.sigchld = @ \/ s1.procs[pgid].st = "stop"]
    ELSE Panic(s1)

\* faulty variant of run_fg (sensitivity of C14): the group gets the
\* terminal and is not continued
run_fg_no_sigcont(s, n) ==
  LET s1 == [s EXCEPT !.exit_val = 1] IN
  IF as_usize(n) \in DOMAIN s1.jobs
    THEN LET pgid == s1.jobs[as_usize(n)] IN
         IF ~GroupExists(s1.procs, pgid) THEN Panic([s1 EXCEPT !.fg = Some(pgid)])
         ELSE [s1 EXCEPT !.fg = Some(pgid), !.tty = pgid]
    ELSE send(s1, Continue(s1.exit_val))

\* faulty variant of run_fg (sensitivity of C38): a successful fg is
\* answered with a Continue of its own
run_fg_replies(s, n) ==
  LET s1 == [s EXCEPT !.exit_val = 1] IN
  IF as_usize(n) \in DOMAIN s1.jobs
    THEN LET pgid == s1.jobs[as_usize(n)] IN
         IF ~GroupExists(s1.procs, pgid) THEN Panic([s1 EXCEPT !.fg = Some(pgid)])
         ELSE send([s1 EXCEPT !.fg = Some(pgid), !.tty = pgid,
                              !.procs = ContinueGroup(@, pgid),
                              !.sigchld = @ \/ s1.procs[pgid].st = "stop"],
                   Continue(0))
    ELSE send(s1, Continue(s1.exit_val))

run_fg(s, n) ==
  LET s1 == [s EXCEPT !.exit_val = 1] IN
  IF as_usize(n) \in DOMAIN s1.jobs
    THEN LET pgid == s1.jobs[as_usize(n)] IN
         \* tcsetpgrp and killpg are unwrapped: they fail on a group without processes
         IF ~GroupExists(s1.procs, pgid) THEN Panic([s1 EXCEPT !.fg = Some(pgid)])
         ELSE [s1 EXCEPT !.fg = Some(pgid), !.tty = pgid,
                         !.procs = ContinueGroup(@, pgid),
                         !.sigchld = @ \/ s1.procs[pgid].st = "stop"]
    ELSE send(s1, Continue(s1.exit_val))

\* faulty variant of run_cd (sensitivity of C16): a failed set_current_dir
\* leaves exit_val as it was
run_cd_status_kept(s, ok) ==
  LET s1 == [s EXCEPT !.exit_val = IF ok THEN 0 ELSE @] IN send(s1, Continue(s1.exit_val))

\* ok: whether set_current_dir succeeds
run_cd(s, ok) ==
  LET s1 == [s EXCEPT !.exit_val = IF ok THEN 0 ELSE 1] IN send(s1, Continue(s1.exit_val))

built_in_cmd(s, job) ==
  CASE job.cmd = "Exit" -> run_exit(s, job.arg)
    [] job.cmd = "Jobs" -> run_jobs(s)
    [] job.cmd = "Fg" -> run_fg(s, job.arg[1])
    [] job.cmd = "Cd" -> run_cd(s, job.arg[1])

\* ---------------------------------------------------------- spawn_child
\* in: the outcome of the forks (ok: the shell's fork succeeds and returns
\* child; forks: how many of the forks inside the pipeline succeed)
\* faulty variant of spawn_child (sensitivity of C31): the launch is
\* reported as failed although the child has been forked and registered
spawn_child_reports_failure(s, n, is_bg, in) ==
  LET id == get_new_job_id(s.jobs) IN
  IF id = None THEN [s EXCEPT !.ret = FALSE]
  ELSE LET f == fork_exec(n, in.ok, in.child, in.forks, in.cmds) IN
       IF ~f.ok THEN [s EXCEPT !.ret = FALSE]
       ELSE LET s1 == [s EXCEPT !.ret = FALSE, !.created = f.created,
                                !.procs[f.pgid] = NewProc] IN
            IF ~is_bg
              THEN LET s2 == insert_job([s1 EXCEPT !.fg = Some(f.pgid)], id[1], f.pgid, f.pids) IN
                   IF s2.panic THEN s2 ELSE [s2 EXCEPT !.tty = f.pgid]
              ELSE s1

\* faulty variant of spawn_child (sensitivity of C36): the foreground job
\* gets fg and the terminal, and is not yet registered when the step ends
spawn_child_unregistered(s, n, is_bg, in) ==
  LET id == get_new_job_id(s.jobs) IN
  IF id = None THEN [s EXCEPT !.ret = FALSE]
  ELSE LET f == fork_exec(n, in.ok, in.child, in.forks, in.cmds) IN
       IF ~f.ok THEN [s EXCEPT !.ret = FALSE]
       ELSE LET s1 == [s EXCEPT !.ret = TRUE, !.created = f.created,
                                !.procs[f.pgid] = NewProc] IN
            IF ~is_bg THEN [s1 EXCEPT !.fg = Some(f.pgid), !.tty = f.pgid]
                      ELSE s1

spawn_child(s, n, is_bg, in) ==
  LET id == get_new_job_id(s.jobs) IN
  IF id = None THEN [s EXCEPT !.ret = FALSE]
  ELSE LET f == fork_exec(n, in.ok, in.child, in.forks, in.cmds) IN
       IF ~f.ok THEN [s EXCEPT !.ret = FALSE]
       ELSE LET s1 == [s EXCEPT !.ret = TRUE, !.created = f.created,
                                !.procs[f.pgid] = NewProc] IN
            IF ~is_bg
              THEN LET s2 == insert_job([s1 EXCEPT !.fg = Some(f.pgid)], id[1], f.pgid, f.pids) IN
                   IF s2.panic THEN s2 ELSE [s2 EXCEPT !.tty = f.pgid]
              ELSE s1

\* the redirects of an n-stage pipeline: none, or one of a kind on the last
\* stage
NoRedirect(n) == [i \in 1..n |-> None]
Cmds(n) ==
  {NoRedirect(n)} \cup {[NoRedirect(n) EXCEPT ![n] = Some(k)] : k \in Redirections}
\* the fork outcomes the operating system can produce for an n-stage
\* pipeline, and the redirects of the pipeline (a pipeline with a redirect
\* is taken with all its forks succeeding)
NoLaunch == [ok |-> FALSE, child |-> 0, forks |-> 0, cmds |-> <<>>]
LaunchInputs(procs, n) ==
  {NoLaunch}
  \cup {[ok |-> TRUE, child |-> c, forks |-> k, cmds |-> NoRedirect(n)] :
          c \in FreePids(procs), k \in 0..(n - 1)}
  \cup {[ok |-> TRUE, child |-> c, forks |-> n - 1, cmds |-> r] :
          c \in FreePids(procs), r \in Cmds(n)}

\* faulty variant of run_job (sensitivity of C17): a failed launch is
\* recorded as status 1
run_job_failure_recorded(s, job, in) ==
  IF job.kind = "BuiltIn" THEN built_in_cmd(s, job)
  ELSE LET s1 == spawn_child(s, job.n, job.is_bg, in) IN
       IF ~s1.panic /\ ~s1.ret
         THEN LET s2 == [s1 EXCEPT !.exit_val = 1] IN send(s2, Continue(s2.exit_val))
         ELSE s1

\* one job of a parsed line (the body of the for loop in Worker::spawn)
run_job(s, job, in) ==
  IF job.kind = "BuiltIn" THEN built_in_cmd(s, job)
  ELSE LET s1 == spawn_child(s, job.n, job.is_bg, in) IN
       IF ~s1.panic /\ ~s1.ret THEN send(s1, Continue(s1.exit_val)) ELSE s1

\* --------------------------------------------------------------- reaper
\* faulty variant of process_term (sensitivity of C28): the result of
\* remove_pid is unwrapped
process_term_unwraps(s, pid) ==
  LET r == remove_pid_ret(s, pid) IN
  IF r = None THEN Panic(s) ELSE manage_job(remove_pid(s, pid), r[1].job_id, r[1].pgid)

process_term(s, pid) ==
  LET r == remove_pid_ret(s, pid) IN
  IF r = None THEN s ELSE manage_job(remove_pid(s, pid), r[1].job_id, r[1].pgid)

\* faulty variant of process_stop (sensitivity of C15): the process is
\* not marked Stop before its job is looked at
process_stop_unmarked(s, pid) ==
  IF s.panic THEN s
  ELSE IF pid \notin DOMAIN s.pid_to_info THEN Panic(s)
  ELSE LET pgid == s.pid_to_info[pid].pgid IN
       IF pgid \notin DOMAIN s.pgid_to_pids THEN Panic(s)
       ELSE manage_job(s, s.pgid_to_pids[pgid].job_id, pgid)

process_stop(s, pid) ==
  LET s1 == set_pid_state(s, pid, "Stop") IN
  IF s1.panic THEN s1
  ELSE IF pid \notin DOMAIN s1.pid_to_info THEN Panic(s1)
  ELSE LET pgid == s1.pid_to_info[pid].pgid IN
       IF pgid \notin DOMAIN s1.pgid_to_pids THEN Panic(s1)
       ELSE manage_job(s1, s1.pgid_to_pids[pgid].job_id, pgid)

\* faulty variant of process_continue (sensitivity of C25): a continued
\* process gives the terminal back to the shell
process_continue_hands_over(s, pid) == set_shell_fg(set_pid_state(s, pid, "Run"))

process_continue(s, pid) == set_pid_state(s, pid, "Run")

\* faulty variant of wait_arm (sensitivity of C30): the status is recorded
\* after the job has been looked at
wait_arm_records_late(s, pid, ws) ==
  CASE ws.kind = "Exited" -> [process_term(s, pid) EXCEPT !.exit_val = ws.val]
    [] ws.kind = "Signaled" -> [process_term(s, pid) EXCEPT !.exit_val = ws.val + 128]
    [] ws.kind = "Stopped" -> process_stop(s, pid)
    [] ws.kind = "Continued" -> process_continue(s, pid)

\* one arm of the match in wait_child
wait_arm(s, pid, ws) ==
  CASE ws.kind = "Exited" -> process_term([s EXCEPT !.exit_val = ws.val], pid)
    [] ws.kind = "Signaled" -> process_term([s EXCEPT !.exit_val = ws.val + 128], pid)
    [] ws.kind = "Stopped" -> process_stop(s, pid)
    [] ws.kind = "Continued" -> process_continue(s, pid)

\* faulty variant of wait_child (sensitivity of C12): when waitpid has
\* nothing more to report, the terminal is taken back and the front end is
\* released, whatever was reaped
RECURSIVE wait_child_unblocks(_, _)
wait_child_unblocks(s, order) ==
  IF s.panic THEN s
  ELSE IF order = <<>> THEN set_shell_fg(s)
  ELSE LET pid == Head(order)
           ws == s.procs[pid].ev[1]
           s1 == [s EXCEPT !.procs[pid] = Reaped(@),
                           !.notes = @ \cup {[pid |-> pid, kind |-> ws.kind, val |-> ws.val,
                                              job |-> remove_pid_ret(s, pid)]}] IN
       wait_child_unblocks(wait_arm(s1, pid, ws), Tail(order))

\* the loop of wait_child; order: the children in the order waitpid reports
\* them, until it answers StillAlive or ECHILD.  notes: what waitpid
\* reported, and the job the registry had the process in at that moment.
RECURSIVE wait_child(_, _)
wait_child(s, order) ==
  IF order = <<>> \/ s.panic THEN s
  ELSE LET pid == Head(order)
           ws == s.procs[pid].ev[1]
           s1 == [s EXCEPT !.procs[pid] = Reaped(@),
                           !.notes = @ \cup {[pid |-> pid, kind |-> ws.kind, val |-> ws.val,
                                              job |-> remove_pid_ret(s, pid)]}] IN
       wait_child(wait_arm(s1, pid, ws), Tail(order))


\* ================================================================ state
VARIABLES
  \* Worker (struct Worker)
  exit_val, fg, jobs, pgid_to_pids, pid_to_info,
  \* Worker thread: "run", or "panicked" after an unwrap or assert failed
  wpc,
  \* jobs of the line in hand still to run (the rest of `for job in jobs`)
  wleft,
  \* the message the Worker is handing over on shell_tx (sync_channel(0))
  out,
  \* worker_rx: what the front end and the relay have sent
  worker_q,
  \* main thread (Shell::run): "read", "recv", "recv_eof", "done", "panicked".
  \* Its prev only picks the prompt's face and is left out.
  shell_pc,
  \* operating system: process table, terminal foreground group, signals
  \* delivered to the shell and not yet forwarded by the relay
  procs, tty, sigpend,
  \* what the Worker step that led to this state was and did, and the state
  \* it started in (NoStep once the Worker is back at the head of its loop)
  last

vars == <<exit_val, fg, jobs, pgid_to_pids, pid_to_info, wpc, wleft, out, worker_q,
          shell_pc, procs, tty, sigpend, last>>

worker_vars == <<exit_val, fg, jobs, pgid_to_pids, pid_to_info, wpc, wleft, out>>
shell_vars == <<shell_pc>>
os_vars == <<procs, tty, sigpend>>

NoJob == [kind |-> "", cmd |-> "", arg |-> <<>>, n |-> 0, is_bg |-> FALSE]
\* the state a Worker step started in, kept with the record of the step
NoPre ==
  [exit_val |-> 0, fg |-> None, jobs |-> EmptyMap, pgid_to_pids |-> EmptyMap,
   pid_to_info |-> EmptyMap, tty |-> ShellPgid, procs |-> [p \in Pids |-> FreeProc],
   out |-> <<>>, shell_pc |-> "read"]
NoStep ==
  [op |-> "", job |-> NoJob, notes |-> {}, sent |-> <<>>, printed |-> <<>>, created |-> {},
   pre |-> NoPre]

Init ==
  /\ exit_val = 0
  /\ fg = None
  /\ jobs = EmptyMap
  /\ pgid_to_pids = EmptyMap
  /\ pid_to_info = EmptyMap
  /\ wpc = "run"
  /\ wleft = 0
  /\ out = <<>>
  /\ worker_q = <<>>
  /\ shell_pc = "read"
  /\ procs = [p \in Pids |-> FreeProc]
  /\ tty = ShellPgid
  /\ sigpend = {}
  /\ last = NoStep

\* the record a Worker step starts from
Self ==
  [exit_val |-> exit_val, fg |-> fg, jobs |-> jobs, pgid_to_pids |-> pgid_to_pids,
   pid_to_info |-> pid_to_info, tty |-> tty, procs |-> procs, sigchld |-> FALSE,
   sent |-> <<>>, printed |-> <<>>, notes |-> {}, created |-> {}, ret |-> TRUE,
   panic |-> FALSE]

\* where the main thread goes when its recv returns m (Shell::run)
Deliver(pc, m) ==
  IF m.type = "Quit" THEN "done" ELSE IF pc = "recv" THEN "read" ELSE "panicked"

Receiving == shell_pc \in {"recv", "recv_eof"}

\* the state a Worker step ends in.  shell_tx is a rendezvous channel: a send
\* is taken at once when the main thread is waiting in recv, and otherwise
\* stays in out, the Worker blocked on it, until the main thread gets there.
Commit(s, op, job) ==
  /\ exit_val' = s.exit_val
  /\ fg' = s.fg
  /\ jobs' = s.jobs
  /\ pgid_to_pids' = s.pgid_to_pids
  /\ pid_to_info' = s.pid_to_info
  /\ tty' = s.tty
  /\ procs' = s.procs
  /\ sigpend' = IF s.sigchld THEN sigpend \cup {SIGCHLD} ELSE sigpend
  /\ out' = IF Receiving /\ s.sent # <<>> THEN Tail(s.sent) ELSE s.sent
  /\ shell_pc' = IF Receiving /\ s.sent # <<>> THEN Deliver(shell_pc, Head(s.sent)) ELSE shell_pc
  /\ wpc' = IF s.panic THEN "panicked" ELSE "run"
  /\ last' = [op |-> op, job |-> job, notes |-> s.notes, sent |-> s.sent,
              printed |-> s.printed, created |-> s.created,
              pre |-> [exit_val |-> exit_val, fg |-> fg, jobs |-> jobs,
                       pgid_to_pids |-> pgid_to_pids, pid_to_info |-> pid_to_info,
                       tty |-> tty, procs |-> procs, out |-> out, shell_pc |-> shell_pc]]

NumSigchld(q) == Cardinality({i \in 1..Len(q) : q[i] = Signal(SIGCHLD)})
NumCmds(q) == Cardinality({i \in 1..Len(q) : q[i].type = "Cmd"})

\* the process has not ended (exit in Shell::run, or a panic of the main thread)
Alive == shell_pc \notin {"done", "panicked"}
\* the step the Worker took last is over: it is at the head of one of its
\* loops (or its thread has ended)
Settled == last = NoStep
\* Steps that wait for nothing run before the rest of the system moves again.
\* The Worker between two jobs of a line waits for nothing but a send that
\* nobody takes:
WorkerBusy == wpc = "run" /\ wleft > 0 /\ out = <<>>
\* the relay has a delivered signal to forward (a SIGCHLD waits while the
\* queue holds MaxSigchld of them):
RelayBusy == \E sig \in sigpend : sig = SIGCHLD => NumSigchld(worker_q) < MaxSigchld
\* the Worker's next message is a signal it only prints:
SignalBusy ==
  worker_q # <<>> /\ Head(worker_q).type = "Signal" /\ Head(worker_q).sig # SIGCHLD
\* both threads are running and none of these steps is due
Running == Settled /\ Alive /\ wpc = "run" /\ ~WorkerBusy /\ ~RelayBusy /\ ~SignalBusy
\* the Worker is in recv on worker_rx, or between two jobs of a line
WorkerReady == Settled /\ Alive /\ wpc = "run" /\ out = <<>>

\* ------------------------------------------------------------ front end
\* readline returns a non-empty line: send it and wait for the answer
ShellReadLine ==
  /\ Running /\ shell_pc = "read"
  /\ NumCmds(worker_q) < MaxQueue
  /\ worker_q' = Append(worker_q, Cmd("line"))
  /\ shell_pc' = "recv"
  /\ last' = NoStep
  /\ UNCHANGED <<worker_vars, os_vars>>

\* readline returns Eof: send "exit" and insist on Quit
ShellEof ==
  /\ Running /\ shell_pc = "read"
  /\ NumCmds(worker_q) < MaxQueue
  /\ worker_q' = Append(worker_q, Cmd("exit"))
  /\ shell_pc' = "recv_eof"
  /\ last' = NoStep
  /\ UNCHANGED <<worker_vars, os_vars>>

\* shell_rx.recv() finds the Worker already blocked in a send
ShellRecv ==
  /\ Settled /\ Receiving /\ out # <<>>
  /\ shell_pc' = Deliver(shell_pc, Head(out))
  /\ out' = Tail(out)
  /\ last' = NoStep
  /\ UNCHANGED <<exit_val, fg, jobs, pgid_to_pids, pid_to_info, wpc, wleft, worker_q, os_vars>>

\* the Worker thread is gone: recv (or send) on its channel fails and is unwrapped
ShellDisconnected ==
  /\ Settled /\ Alive /\ wpc = "panicked" /\ out = <<>>
  /\ shell_pc' = "panicked"
  /\ last' = NoStep
  /\ UNCHANGED <<worker_vars, worker_q, os_vars>>


\* --------------------------------------------------------- signal relay
\* the terminal delivers Ctrl-C / Ctrl-Z to the shell while it is the
\* terminal's foreground group (here: while the Worker's queue is empty)
KeySignal(sig) ==
  /\ Running /\ tty = ShellPgid /\ sig \notin sigpend
  /\ worker_q = <<>> /\ out = <<>>
  /\ sigpend' = sigpend \cup {sig}
  /\ last' = NoStep
  /\ UNCHANGED <<worker_vars, worker_q, shell_vars, procs, tty>>

\* spawn_sig_handler: forward one delivered signal to the Worker
Relay(sig) ==
  /\ Settled /\ Alive /\ wpc = "run" /\ ~WorkerBusy /\ sig \in sigpend
  /\ sig = SIGCHLD => NumSigchld(worker_q) < MaxSigchld
  /\ worker_q' = Append(worker_q, Signal(sig))
  /\ sigpend' = sigpend \ {sig}
  /\ last' = NoStep
  /\ UNCHANGED <<worker_vars, shell_vars, procs, tty>>

\* ------------------------------------------- children changing state
ChildEvent(p, st, ws) ==
  /\ procs' = [procs EXCEPT ![p].st = st, ![p].ev = Some(ws)]
  /\ sigpend' = sigpend \cup {SIGCHLD}
  /\ last' = NoStep
  /\ UNCHANGED <<worker_vars, worker_q, shell_vars, tty>>

ChildExit(p, status) ==
  /\ Running /\ procs[p].st = "run"
  /\ ChildEvent(p, "zombie", WaitStatus("Exited", status))

ChildKilled(p, sig) ==
  /\ Running /\ procs[p].st \in {"run", "stop"}
  /\ ChildEvent(p, "zombie", WaitStatus("Signaled", sig))

ChildStop(p) ==
  /\ Running /\ procs[p].st = "run"
  /\ ChildEvent(p, "stop", WaitStatus("Stopped", SIGTSTP))

ChildCont(p) ==
  /\ Running /\ procs[p].st = "stop"
  /\ ChildEvent(p, "run", WaitStatus("Continued", 0))

\* --------------------------------------------------------------- Worker
OpOf(job) == IF job.kind = "BuiltIn" THEN job.cmd ELSE "spawn_child"

IsFgExternal(job) == job.kind = "External" /\ ~job.is_bg

\* (redirects are tried on foreground launches)
JobInputs(job) ==
  IF job.kind = "External"
    THEN {in \in LaunchInputs(procs, job.n) :
            job.is_bg => in.cmds \in {<<>>, NoRedirect(job.n)}}
    ELSE {NoLaunch}

\* WorkerMsg::Cmd(line), parse_cmd fails
WorkerParseError ==
  /\ WorkerReady /\ wleft = 0
  /\ worker_q # <<>> /\ Head(worker_q) = Cmd("line")
  /\ Commit(send(Self, Continue(exit_val)), "parse_error", NoJob)
  /\ worker_q' = Tail(worker_q)
  /\ wleft' = wleft

\* WorkerMsg::Cmd(line), parse_cmd gives 1 + k jobs: run the first.  A job
\* that is not followed by "&" and is an external pipeline ends its line
\* (parser.rs, job and parse_cmd).
WorkerCmd(job, k) ==
  /\ WorkerReady /\ wleft = 0
  /\ worker_q # <<>> /\ Head(worker_q).type = "Cmd"
  /\ Head(worker_q).line = "exit" => job = BuiltIn("Exit", None) /\ k = 0
  /\ IsFgExternal(job) => k = 0
  /\ \E in \in JobInputs(job) : Commit(run_job(Self, job, in), OpOf(job), job)
  /\ worker_q' = Tail(worker_q)
  /\ wleft' = k

\* the next job of the line in hand, once the previous send (if any) is taken
WorkerNextJob(job) ==
  /\ WorkerReady /\ wleft > 0
  /\ IsFgExternal(job) => wleft = 1
  /\ \E in \in JobInputs(job) : Commit(run_job(Self, job, in), OpOf(job), job)
  /\ wleft' = wleft - 1
  /\ UNCHANGED worker_q

\* WorkerMsg::Signal(SIGCHLD)
WorkerSigchld ==
  /\ WorkerReady /\ wleft = 0
  /\ worker_q # <<>> /\ Head(worker_q) = Signal(SIGCHLD)
  /\ \E order \in Perms(Pending(procs)) : Commit(wait_child(Self, order), "wait_child", NoJob)
  /\ worker_q' = Tail(worker_q)
  /\ wleft' = wleft

\* faulty variant of WorkerSignal (sensitivity of C26): every signal gives
\* the terminal to the shell and releases the front end
WorkerSignal_releases ==
  /\ WorkerReady /\ wleft = 0
  /\ worker_q # <<>> /\ Head(worker_q).type = "Signal" /\ Head(worker_q).sig # SIGCHLD
  /\ Commit(set_shell_fg(Self), "signal", NoJob)
  /\ worker_q' = Tail(worker_q)
  /\ wleft' = wleft

\* WorkerMsg::Signal(sig), any other signal
WorkerSignal ==
  /\ WorkerReady /\ wleft = 0
  /\ worker_q # <<>> /\ Head(worker_q).type = "Signal" /\ Head(worker_q).sig # SIGCHLD
  /\ Commit(Self, "signal", NoJob)
  /\ worker_q' = Tail(worker_q)
  /\ wleft' = wleft

\* the Worker goes on after a step: to the next job of the line (the inner
\* `for` of the Cmd arm) or to the next message of worker_rx (or, after a
\* panic, its thread has unwound)
WorkerLoop ==
  /\ ~Settled
  /\ last' = NoStep
  /\ UNCHANGED <<worker_vars, worker_q, shell_vars, os_vars>>

Next ==
  \/ ShellReadLine
  \/ ShellEof
  \/ ShellRecv
  \/ ShellDisconnected
  \/ \E sig \in KeySignals : KeySignal(sig)
  \/ \E sig \in KeySignals \cup {SIGCHLD} : Relay(sig)
  \/ \E p \in Pids, status \in ChildStatus : ChildExit(p, status)
  \/ \E p \in Pids, sig \in KillSignals : ChildKilled(p, sig)
  \/ \E p \in Pids : ChildStop(p)
  \/ \E p \in Pids : ChildCont(p)
  \/ WorkerParseError
  \/ \E job \in AllJobs, k \in 0..(MaxJobsPerLine - 1) : WorkerCmd(job, k)
  \/ \E job \in AllJobs : WorkerNextJob(job)
  \/ WorkerSigchld
  \/ WorkerSignal
  \/ WorkerLoop

Spec == Init /\ [][Next]_vars

\* the Worker, the relay and the main thread's recv are scheduled, and a
\* running child ends
FairSpec ==
  /\ Spec
  /\ WF_vars(WorkerParseError)
  /\ WF_vars(\E job \in AllJobs, k \in 0..(MaxJobsPerLine - 1) : WorkerCmd(job, k))
  /\ WF_vars(\E job \in AllJobs : WorkerNextJob(job))
  /\ WF_vars(WorkerSigchld)
  /\ WF_vars(WorkerSignal)
  /\ WF_vars(WorkerLoop)
  /\ WF_vars(\E sig \in KeySignals \cup {SIGCHLD} : Relay(sig))
  /\ WF_vars(ShellRecv)
  /\ WF_vars(ShellDisconnected)
  /\ WF_vars(\E p \in Pids, status \in ChildStatus : ChildExit(p, status))

\* =========================================================== properties
\* the process ids in the member sets of pgid_to_pids
Members == UNION {pgid_to_pids[g].pids : g \in DOMAIN pgid_to_pids}
\* the state the Worker step that led to this state started in
Pre == last.pre
\* the record that step started from
PreSelf ==
  [Self EXCEPT !.exit_val = Pre.exit_val, !.fg = Pre.fg, !.jobs = Pre.jobs,
               !.pgid_to_pids = Pre.pgid_to_pids, !.pid_to_info = Pre.pid_to_info,
               !.tty = Pre.tty, !.procs = Pre.procs]
\* the process groups of the jobs table
JobPgids == {jobs[j] : j \in DOMAIN jobs}
\* a step that launched a pipeline with every fork succeeding
AllForked(step) ==
  /\ step.op = "spawn_child"
  /\ Cardinality(step.created) = step.job.n
  /\ \A c \in step.created : c.stage # 0
\* the process the shell itself forked in that step: the leader of the group
Leader(step) == CHOOSE p \in Pids : \E c \in step.created : c.pid = p
\* the notifications of a step that end a process
TermNotes(step) == {n \in step.notes : n.kind \in {"Exited", "Signaled"}}
Waiting == shell_pc \in {"recv", "recv_eof"}

\* C1: after every Worker step the process ids in the member sets of
\* pgid_to_pids are exactly the keys of pid_to_info.
C1_RegistryAgrees == wpc = "run" => Members = DOMAIN pid_to_info

\* C2: after every Worker step fg is None or the process group of a job in
\* the jobs table, which is also a key of pgid_to_pids.
C2_FgIsLiveJob ==
  wpc = "run" => (fg = None \/ (fg[1] \in JobPgids /\ fg[1] \in DOMAIN pgid_to_pids))

\* C2 case: another job has just been removed while a job is in the foreground
C2_Witness ==
  /\ wpc = "run" /\ last.op = "wait_child" /\ fg # None
  /\ \E n \in TermNotes(last) : n.job # None /\ n.job[1].pgid \notin DOMAIN pgid_to_pids

\* C3: when the foreground job has exactly one registered process and the
\* step reaps an Exited notification for it, the same step removes the job
\* from jobs and pgid_to_pids, sets fg to None, hands the terminal to the
\* shell's group and sends exactly one message, a Continue.
C3_FgJobExit ==
  \A p \in Pids :
    (/\ last.op = "wait_child"
     /\ Pre.fg # None /\ Pre.fg[1] \in DOMAIN Pre.pgid_to_pids
     /\ Pre.pgid_to_pids[Pre.fg[1]].pids = {p}
     /\ \E n \in last.notes : n.pid = p /\ n.kind = "Exited")
    => (/\ Pre.fg[1] \notin DOMAIN pgid_to_pids
        /\ \A j \in DOMAIN Pre.jobs : Pre.jobs[j] = Pre.fg[1] => j \notin DOMAIN jobs
        /\ fg = None
        /\ tty = ShellPgid
        /\ Len(last.sent) = 1 /\ last.sent[1].type = "Continue")

\* C3 case: the only notification of the step was the exit of a registered
\* process, and the step answered the front end
C3_Witness ==
  /\ last.op = "wait_child" /\ fg = None /\ tty = ShellPgid
  /\ \E n \in last.notes :
       /\ last.notes = {n} /\ n.kind = "Exited" /\ n.job # None
       /\ n.job[1].pgid \notin DOMAIN pgid_to_pids
       /\ last.sent = <<Continue(n.val)>>

\* C4: a launch of a three-stage pipeline, not in the background, every fork
\* succeeding, leaves exactly one job for the new group, whose member set
\* holds exactly 3 registered processes of that group, with fg at the group
\* and no message sent.
C4_PipelineOfThree ==
  (wpc = "run" /\ AllForked(last) /\ last.job.n = 3 /\ ~last.job.is_bg)
    => LET g == Leader(last) IN
       /\ Cardinality({j \in DOMAIN jobs : jobs[j] = g}) = 1
       /\ g \in DOMAIN pgid_to_pids
       /\ Cardinality(pgid_to_pids[g].pids) = 3
       /\ \A p \in pgid_to_pids[g].pids : p \in DOMAIN pid_to_info /\ pid_to_info[p].pgid = g
       /\ fg = Some(g)
       /\ last.sent = <<>>

\* C5: a launch in the background that succeeds leaves a job for the new
\* group in the jobs table and in the registry.
C5_BackgroundRegistered ==
  (wpc = "run" /\ AllForked(last) /\ last.job.is_bg)
    => (Leader(last) \in JobPgids /\ Leader(last) \in DOMAIN pgid_to_pids)

\* C6: under fair scheduling, with running children ending, a front end
\* that waits for the answer to a line does not wait forever.
C6_Answered == Waiting ~> ~Waiting

\* C7: the Worker never holds a message for a front end that is not waiting
\* for one (one message per line, taken by the recv that follows the line).
C7_NeverBlockedSending == out = <<>>

\* C8: when the step reaps the end of the last registered process of a job
\* that is not the foreground group, and nothing of the foreground group,
\* the job leaves jobs and pgid_to_pids, fg keeps its value and no message
\* is sent.
C8_OtherJobExit ==
  \A g \in DOMAIN Pre.pgid_to_pids, p \in Pids :
    (/\ last.op = "wait_child"
     /\ Pre.fg # Some(g)
     /\ Pre.pgid_to_pids[g].pids = {p}
     /\ p \in DOMAIN Pre.pid_to_info /\ Pre.pid_to_info[p].pgid = g
     /\ \E n \in TermNotes(last) : n.pid = p
     /\ \A n \in last.notes : Pre.fg = None \/ n.pid \notin Pre.pgid_to_pids[Pre.fg[1]].pids)
    => (/\ g \notin DOMAIN pgid_to_pids
        /\ \A j \in DOMAIN Pre.jobs : Pre.jobs[j] = g => j \notin DOMAIN jobs
        /\ fg = Pre.fg
        /\ last.sent = <<>>)

\* C8 case: a job in the foreground, and the step removed another job whose
\* only process ended
C8_Witness ==
  /\ last.op = "wait_child" /\ fg # None /\ last.sent = <<>>
  /\ \E n \in TermNotes(last) :
       /\ last.notes = {n} /\ n.job # None
       /\ n.job[1].pgid \notin DOMAIN pgid_to_pids
       /\ n.job[1].job_id \notin DOMAIN jobs

\* C9: exit with jobs in the table sends Continue(1) and leaves the table as
\* it was; with an empty table exit(n) sends Quit(n) and exit without a code
\* sends Quit(s), s the last recorded status.
C9_Exit ==
  last.op = "Exit" =>
    IF Pre.jobs # EmptyMap
      THEN last.sent = <<Continue(1)>> /\ jobs = Pre.jobs
      ELSE last.sent = <<Quit(IF last.job.arg = None THEN Pre.exit_val
                                ELSE last.job.arg[1])>>

\* C9 case: exit 3 refused because a job is alive
C9_Witness ==
  /\ last.op = "Exit" /\ last.job.arg = Some(3)
  /\ jobs # EmptyMap /\ last.sent = <<Continue(1)>>

\* C10: fg(n), n negative or no id of the jobs table, leaves jobs, the two
\* registry maps and fg as they were and sends Continue(1); the Worker goes on.
C10_FgNoSuchJob ==
  (last.op = "Fg" /\ (last.job.arg[1] < 0 \/ last.job.arg[1] \notin DOMAIN Pre.jobs))
    => (/\ jobs = Pre.jobs
        /\ pgid_to_pids = Pre.pgid_to_pids
        /\ pid_to_info = Pre.pid_to_info
        /\ fg = Pre.fg
        /\ last.sent = <<Continue(1)>>
        /\ wpc = "run")

\* C10 case: fg 1 while the only live job is job 0
C10_Witness ==
  /\ last.op = "Fg" /\ last.job.arg = Some(1)
  /\ DOMAIN jobs = {0} /\ last.sent = <<Continue(1)>>

\* C11: a run_jobs step prints one line per entry of jobs, in ascending
\* job_id order, with the label Stopped exactly when every process of the
\* job's member set has state Stop and Running otherwise; it leaves jobs and
\* fg as they were and sends exactly Continue(0).
C11_JobsListing ==
  last.op = "Jobs" =>
    LET printed == last.printed IN
    /\ Len(printed) = Cardinality(DOMAIN Pre.jobs)
    /\ {printed[k].job_id : k \in 1..Len(printed)} = DOMAIN Pre.jobs
    /\ \A k \in 1..(Len(printed) - 1) : printed[k].job_id < printed[k + 1].job_id
    /\ \A k \in 1..Len(printed) :
         printed[k].state =
           IF \A p \in Pre.pgid_to_pids[Pre.jobs[printed[k].job_id]].pids :
                   Pre.pid_to_info[p].state = "Stop"
             THEN "Stopped" ELSE "Running"
    /\ jobs = Pre.jobs /\ fg = Pre.fg
    /\ last.sent = <<Continue(0)>>
\* jobs has listed two jobs, the first Stopped and the second Running
C11_Witness ==
  /\ last.op = "Jobs" /\ Len(last.printed) = 2
  /\ last.printed[1].state = "Stopped" /\ last.printed[2].state = "Running"

\* C12: a wait_child step in which waitpid has nothing to report (StillAlive
\* or ECHILD at the first call) leaves jobs, pgid_to_pids, pid_to_info, fg
\* and exit_val unchanged and sends no message.
C12_EmptyDrain ==
  (last.op = "wait_child" /\ last.notes = {}) =>
    /\ jobs = Pre.jobs /\ pgid_to_pids = Pre.pgid_to_pids /\ pid_to_info = Pre.pid_to_info
    /\ fg = Pre.fg /\ exit_val = Pre.exit_val
    /\ last.sent = <<>> /\ out = Pre.out /\ shell_pc = Pre.shell_pc
\* a SIGCHLD handled with nothing pending while a job is live and in the
\* foreground
C12_Witness ==
  /\ last.op = "wait_child" /\ last.notes = {}
  /\ jobs # EmptyMap /\ fg # None /\ wpc = "run"

\* C13: every built-in step sends exactly one message, except a run_fg step
\* that finds its job, which sends none; after such a run_fg step the front
\* end is blocked in recv with no message on its way, and the step that
\* releases it is a wait_child step (the one in which the job's group
\* empties or becomes fully stopped).
C13_BuiltInReplies ==
  /\ last.op \in {"Exit", "Jobs", "Cd"} => Len(last.sent) = 1
  /\ last.op = "Fg" =>
       Len(last.sent) = IF as_usize(last.job.arg[1]) \in DOMAIN Pre.jobs THEN 0 ELSE 1
  /\ (last.op = "Fg" /\ last.sent = <<>> /\ wpc = "run") => (Waiting /\ out = <<>>)

\* C14: a run_fg step whose n is a key of jobs sets fg to that job's
\* process group, makes it the terminal's foreground group and continues
\* the group (a stopped process of it runs again), and changes neither jobs
\* nor pgid_to_pids nor pid_to_info; the Worker thread goes on.
C14_FgLiveJob ==
  (last.op = "Fg" /\ as_usize(last.job.arg[1]) \in DOMAIN Pre.jobs) =>
    LET pgid == Pre.jobs[as_usize(last.job.arg[1])] IN
    /\ fg = Some(pgid) /\ tty = pgid
    /\ \A p \in Pre.pgid_to_pids[pgid].pids :
         /\ procs[p].st # "stop"
         /\ Pre.procs[p].st = "stop" => procs[p].st = "run"
    /\ jobs = Pre.jobs /\ pgid_to_pids = Pre.pgid_to_pids /\ pid_to_info = Pre.pid_to_info
    /\ wpc = "run"
\* fg has put a job in the foreground whose process was stopped: the
\* process runs again and its Continued status waits to be reaped
C14_Witness ==
  /\ last.op = "Fg" /\ last.sent = <<>> /\ fg # None /\ wpc = "run"
  /\ \E p \in pgid_to_pids[fg[1]].pids :
       /\ pid_to_info[p].state = "Stop"
       /\ procs[p].st = "run" /\ procs[p].ev = Some(WaitStatus("Continued", 0))

\* the one notification of a wait_child step that reaped a single Stopped
\* status of a process the registry has in a job
StopNote(step) == CHOOSE n \in step.notes : TRUE
IsStopStep(step) ==
  /\ step.op = "wait_child" /\ Cardinality(step.notes) = 1
  /\ \A n \in step.notes : n.kind = "Stopped" /\ n.job # None
\* with this process stopped, the whole group pgid is stopped (in the
\* registry the step started from)
StopsGroup(pid, pgid) ==
  \A p \in Pre.pgid_to_pids[pgid].pids \ {pid} : Pre.pid_to_info[p].state = "Stop"

\* C15: a wait_child step that reaps one Stopped status of a registered
\* process marks the process Stop; when this leaves the foreground group
\* fully stopped, fg becomes None, the terminal goes back to the shell's
\* group, exactly one message, a Continue, is sent and the job stays in jobs;
\* when the group is not the foreground group or has a running process left,
\* nothing else changes and nothing is sent.
C15_Stopped ==
  IsStopStep(last) =>
    LET pid == StopNote(last).pid
        pgid == StopNote(last).job[1].pgid IN
    /\ pid_to_info = [Pre.pid_to_info EXCEPT ![pid].state = "Stop"]
    /\ jobs = Pre.jobs /\ pgid_to_pids = Pre.pgid_to_pids /\ exit_val = Pre.exit_val
    /\ wpc = "run"
    /\ IF Pre.fg = Some(pgid) /\ StopsGroup(pid, pgid)
         THEN /\ fg = None /\ tty = ShellPgid
              /\ Len(last.sent) = 1 /\ last.sent[1].type = "Continue"
         ELSE /\ fg = Pre.fg /\ tty = Pre.tty /\ last.sent = <<>>
\* the foreground job has been stopped: it is still in jobs, fg is None and
\* the front end has been sent its Continue
C15_Witness ==
  /\ IsStopStep(last) /\ fg = None /\ tty = ShellPgid
  /\ StopNote(last).job[1].job_id \in DOMAIN jobs
  /\ Len(last.sent) = 1

\* a step answered with exactly one message, a Continue with a status other
\* than 0, after which the Worker thread goes on
RefusedStep(step) ==
  /\ Len(step.sent) = 1
  /\ step.sent[1].type = "Continue" /\ step.sent[1].val # 0

\* C16: a run_fg step whose n is no key of jobs and a run_cd step whose
\* set_current_dir fails are answered with one Continue carrying a status
\* other than 0, and the Worker thread goes on; spawn_child is never run in
\* a state where get_new_job_id finds no free id.
C16_UserErrors ==
  /\ (last.op = "Fg" /\ as_usize(last.job.arg[1]) \notin DOMAIN Pre.jobs) =>
       (RefusedStep(last) /\ wpc = "run")
  /\ (last.op = "Cd" /\ ~last.job.arg[1]) => (RefusedStep(last) /\ wpc = "run")
  /\ last.op = "spawn_child" => get_new_job_id(Pre.jobs) # None
\* cd to a bad path after a command that ended with status 0
C16_Witness ==
  /\ last.op = "Cd" /\ ~last.job.arg[1]
  /\ last.sent = <<Continue(1)>> /\ exit_val = 1 /\ wpc = "run"

\* C17: a spawn_child step whose fork fails (no process is created) leaves
\* jobs, pgid_to_pids, pid_to_info, fg and exit_val unchanged, and the
\* Worker sends exactly one message, Continue with the exit_val of the state
\* before the step.
C17_LaunchFailure ==
  (last.op = "spawn_child" /\ last.created = {}) =>
    /\ jobs = Pre.jobs /\ pgid_to_pids = Pre.pgid_to_pids /\ pid_to_info = Pre.pid_to_info
    /\ fg = Pre.fg /\ exit_val = Pre.exit_val
    /\ tty = Pre.tty /\ procs = Pre.procs
    /\ last.sent = <<Continue(Pre.exit_val)>>
    /\ wpc = "run"
\* a fork has failed while a job is live and the command before ended with
\* a status other than 0
C17_Witness ==
  /\ last.op = "spawn_child" /\ last.created = {}
  /\ jobs # EmptyMap /\ exit_val # 0
  /\ last.sent = <<Continue(exit_val)>>

\* C18: after every Worker step jobs and pgid_to_pids correspond one to
\* one: the pgid of every job is a key of pgid_to_pids whose entry records
\* that job's id, and every entry of pgid_to_pids records the id of a job
\* whose pgid is its key.
C18_JobsAndGroups ==
  wpc = "run" =>
    /\ \A j \in DOMAIN jobs :
         jobs[j] \in DOMAIN pgid_to_pids /\ pgid_to_pids[jobs[j]].job_id = j
    /\ \A g \in DOMAIN pgid_to_pids :
         pgid_to_pids[g].job_id \in DOMAIN jobs /\ jobs[pgid_to_pids[g].job_id] = g
\* a Worker step has ended with two jobs live
C18_Witness ==
  /\ last.op # "" /\ wpc = "run"
  /\ Cardinality(DOMAIN jobs) = 2 /\ Cardinality(DOMAIN pgid_to_pids) = 2

\* C19: after every Worker step no job has an empty member set: the step
\* that takes the last process out of a group also removes the job from
\* jobs and pgid_to_pids, foreground or not.
C19_NoEmptyJob ==
  wpc = "run" =>
    /\ \A g \in DOMAIN pgid_to_pids : pgid_to_pids[g].pids # {}
    /\ \A j \in DOMAIN jobs :
         jobs[j] \in DOMAIN pgid_to_pids /\ pgid_to_pids[jobs[j]].pids # {}
\* a wait_child step has taken the last process out of a job that was not
\* the foreground job, and the job is gone while another job is live
C19_Witness ==
  /\ last.op = "wait_child" /\ wpc = "run" /\ last.sent = <<>>
  /\ jobs # EmptyMap
  /\ \E n \in TermNotes(last) :
       /\ n.job # None
       /\ n.job[1].job_id \notin DOMAIN jobs
       /\ n.job[1].pgid \notin DOMAIN pgid_to_pids

\* C20: after every Worker step every process id in a member set of
\* pgid_to_pids is a key of pid_to_info, recorded there with the pgid the
\* member set is filed under.
C20_MembersKnown ==
  wpc = "run" =>
    \A g \in DOMAIN pgid_to_pids : \A p \in pgid_to_pids[g].pids :
      p \in DOMAIN pid_to_info /\ pid_to_info[p].pgid = g
\* a launch has registered a job while pid_to_info still holds the process
\* of a job that has ended
C20_Witness ==
  /\ last.op = "spawn_child" /\ last.created # {} /\ wpc = "run"
  /\ fg # None /\ fg[1] \in DOMAIN pgid_to_pids
  /\ pgid_to_pids[fg[1]].pids # {}
  /\ DOMAIN pid_to_info # Members

\* C21: in every state in which fg names a process group, the front end is
\* blocked in recv on shell_rx and no message is on its way to it.
C21_FgBlocksFrontEnd ==
  (wpc = "run" /\ Alive /\ fg # None) => (Waiting /\ out = <<>>)

\* what the registry shows, after the step, of the status ws reaped for a
\* registered process
Reflected(pid, ws) ==
  CASE ws.kind \in {"Exited", "Signaled"} -> pid \notin Members
    [] ws.kind = "Stopped" -> pid \in DOMAIN pid_to_info /\ pid_to_info[pid].state = "Stop"
    [] ws.kind = "Continued" -> pid \in DOMAIN pid_to_info /\ pid_to_info[pid].state = "Run"

\* C22: a wait_child step that starts with the statuses of several children
\* pending for the one SIGCHLD it handles takes every one of them:
\* after the step no status is left pending, and the registry shows every
\* one of them for the processes it has in a job.
C22_DrainsAll ==
  (last.op = "wait_child" /\ Cardinality(Pending(Pre.procs)) > 1) =>
    /\ {n.pid : n \in last.notes} = Pending(Pre.procs)
    /\ Pending(procs) = {}
    /\ \A pid \in Pending(Pre.procs) :
         remove_pid_ret(PreSelf, pid) # None => Reflected(pid, Pre.procs[pid].ev[1])

\* when the step started, pid was the only process of the job of group
\* pgid, the registry had it as Stop, and it had ended without being waited
\* for
EndedStoppedJob(pid, pgid) ==
  /\ pgid \in DOMAIN Pre.pgid_to_pids /\ Pre.pgid_to_pids[pgid].pids = {pid}
  /\ Pre.pgid_to_pids[pgid].job_id \in DOMAIN Pre.jobs
  /\ Pre.jobs[Pre.pgid_to_pids[pgid].job_id] = pgid
  /\ pid \in DOMAIN Pre.pid_to_info
  /\ Pre.pid_to_info[pid] = ProcInfo("Stop", pgid)
  /\ Pre.procs[pid].st = "zombie"

\* C23: for a stopped job whose only process has ended, `fg n` and the
\* SIGCHLD of the end are handled in either order with the same outcome.
\* SIGCHLD first: wait_child removes the job without a message and run_fg,
\* not finding it, sends exactly Continue(1) and leaves fg None.  fg first:
\* run_fg puts the group in the foreground without a message and the Worker
\* goes on, and wait_child then removes the job, sets fg to None and sends
\* exactly one Continue.
C23_FgAndReapEitherOrder ==
  /\ \A pid \in Pids, pgid \in Pids :
       (last.op = "wait_child" /\ Pending(Pre.procs) = {pid}
          /\ EndedStoppedJob(pid, pgid)) =>
         /\ wpc = "run"
         /\ Pre.pgid_to_pids[pgid].job_id \notin DOMAIN jobs
         /\ pgid \notin DOMAIN pgid_to_pids
         /\ IF Pre.fg = Some(pgid)
              THEN fg = None /\ Len(last.sent) = 1 /\ last.sent[1].type = "Continue"
              ELSE fg = Pre.fg /\ last.sent = <<>>
  /\ (last.op = "Fg" /\ as_usize(last.job.arg[1]) \in DOMAIN Pre.jobs) =>
       LET pgid == Pre.jobs[as_usize(last.job.arg[1])] IN
       (\E pid \in Pids : EndedStoppedJob(pid, pgid)) =>
         (wpc = "run" /\ fg = Some(pgid) /\ last.sent = <<>> /\ jobs = Pre.jobs)
  /\ (last.op = "Fg" /\ as_usize(last.job.arg[1]) \notin DOMAIN Pre.jobs) =>
       (wpc = "run" /\ fg = Pre.fg /\ last.sent = <<Continue(1)>>)
\* fg first: the job was put in the foreground after its process had ended
\* (the registry still has the process as Stop), and the wait_child step has
\* removed it, set fg to None and sent the one Continue
C23_Witness ==
  /\ last.op = "wait_child" /\ wpc = "run" /\ fg = None
  /\ Len(last.sent) = 1 /\ jobs = EmptyMap
  /\ \E n \in TermNotes(last) :
       /\ n.job # None /\ n.pid \in DOMAIN pid_to_info
       /\ pid_to_info[n.pid].state = "Stop"

\* C24: the assertions of the registry hold in every step: a launch that
\* registers a job finds its job id no key of jobs and the pid of the new
\* process no key of pid_to_info and of pgid_to_pids (also when fork returns
\* the pid of a process that was waited for earlier), so insert_job does not
\* panic; and a job is removed only when all processes of its member set
\* have been taken out in the same step.
C24_AssertionsHold ==
  /\ (last.op = "spawn_child" /\ ~last.job.is_bg /\ last.created # {}) =>
       /\ get_new_job_id(Pre.jobs) # None /\ get_new_job_id(Pre.jobs)[1] \notin DOMAIN Pre.jobs
       /\ Leader(last) \notin DOMAIN Pre.pid_to_info
       /\ Leader(last) \notin DOMAIN Pre.pgid_to_pids
       /\ wpc = "run"
  /\ last.op = "wait_child" =>
       \A j \in DOMAIN Pre.jobs \ DOMAIN jobs :
         Pre.jobs[j] \in DOMAIN Pre.pgid_to_pids =>
           Pre.pgid_to_pids[Pre.jobs[j]].pids \subseteq {n.pid : n \in TermNotes(last)}

\* a wait_child step that reaped exactly one status, a Continued one
IsContinueStep(step) ==
  /\ step.op = "wait_child" /\ Cardinality(step.notes) = 1
  /\ \A n \in step.notes : n.kind = "Continued"

\* C25: a wait_child step that reaps one Continued status sets the state of
\* that process to Run when pid_to_info has the process and changes nothing
\* when it does not; jobs, pgid_to_pids, fg, the terminal and exit_val are
\* unchanged and nothing is sent, also for a process of the foreground group.
C25_Continued ==
  IsContinueStep(last) =>
    LET pid == StopNote(last).pid IN
    /\ pid_to_info = IF pid \in DOMAIN Pre.pid_to_info
                        THEN [Pre.pid_to_info EXCEPT ![pid].state = "Run"]
                        ELSE Pre.pid_to_info
    /\ jobs = Pre.jobs /\ pgid_to_pids = Pre.pgid_to_pids
    /\ fg = Pre.fg /\ tty = Pre.tty /\ exit_val = Pre.exit_val
    /\ last.sent = <<>> /\ wpc = "run"
\* the Continued status of the process of the foreground job (stopped
\* before, restarted by fg) has been reaped: it is Run and fg is unchanged
C25_Witness ==
  /\ IsContinueStep(last) /\ wpc = "run" /\ fg # None
  /\ StopNote(last).job # None
  /\ StopNote(last).job[1].pgid = fg[1]
  /\ pid_to_info[StopNote(last).pid].state = "Run"

\* C26: the step for a signal other than SIGCHLD leaves jobs, pgid_to_pids,
\* pid_to_info, fg and exit_val unchanged, calls no waitpid (no status is
\* taken, the process table is as before) and sends nothing.
C26_OtherSignal ==
  last.op = "signal" =>
    /\ jobs = Pre.jobs /\ pgid_to_pids = Pre.pgid_to_pids /\ pid_to_info = Pre.pid_to_info
    /\ fg = Pre.fg /\ tty = Pre.tty /\ exit_val = Pre.exit_val
    /\ procs = Pre.procs /\ last.notes = {}
    /\ last.sent = <<>> /\ out = Pre.out /\ shell_pc = Pre.shell_pc
    /\ wpc = "run"
\* a SIGINT has been handled while a stopped job is in the table
C26_Witness ==
  /\ last.op = "signal" /\ wpc = "run"
  /\ jobs # EmptyMap /\ fg = None

\* C27: is_group_stop answers true only for a group with a non-empty member
\* set all of whose processes are Stop, and answers false for a group whose
\* member set is empty.  It is asked about the registry as it stands and
\* about the registry as process_term has it after remove_pid has taken a
\* process out of its group.
C27_EmptyGroupNotStopped ==
  wpc = "run" =>
    \A g \in DOMAIN pgid_to_pids :
      /\ is_group_stop(Self, g) = "true" =>
           /\ pgid_to_pids[g].pids # {}
           /\ \A p \in pgid_to_pids[g].pids : pid_to_info[p].state = "Stop"
      /\ \A pid \in pgid_to_pids[g].pids :
           LET s == remove_pid(Self, pid) IN
           s.pgid_to_pids[g].pids = {} => is_group_stop(s, g) = "false"

\* a wait_child step all of whose statuses are ends (Exited or Signaled) of
\* processes that remove_pid does not find
IsForeignTermStep(step) ==
  /\ step.op = "wait_child" /\ step.notes # {}
  /\ \A n \in step.notes : n.kind \in {"Exited", "Signaled"} /\ n.job = None

\* C28: a wait_child step that reaps only ends of processes the registry
\* does not know leaves jobs, pgid_to_pids, pid_to_info, fg and the terminal
\* unchanged and sends nothing; the loop goes on until no status is pending
\* and the Worker thread goes on.
C28_UnknownPidEnds ==
  IsForeignTermStep(last) =>
    /\ jobs = Pre.jobs /\ pgid_to_pids = Pre.pgid_to_pids /\ pid_to_info = Pre.pid_to_info
    /\ fg = Pre.fg /\ tty = Pre.tty
    /\ last.sent = <<>> /\ wpc = "run"
    /\ {n.pid : n \in last.notes} = Pending(Pre.procs) /\ Pending(procs) = {}
\* the ends of two background processes have been reaped in one step
C28_Witness ==
  /\ IsForeignTermStep(last) /\ Cardinality(last.notes) = 2 /\ wpc = "run"

\* a launch that registered a job (a foreground launch whose fork succeeded)
IsRegisteringStep(step) ==
  step.op = "spawn_child" /\ ~step.job.is_bg /\ step.created # {}

\* C29: a launch that registers a job adds exactly one key to jobs, the
\* smallest natural number that was no key of jobs before the step, and
\* leaves the other jobs as they were.
C29_SmallestFreeId ==
  IsRegisteringStep(last) =>
    LET new == DOMAIN jobs \ DOMAIN Pre.jobs IN
    /\ Cardinality(new) = 1
    /\ \A id \in new : \A i \in 0..(id - 1) : i \in DOMAIN Pre.jobs
    /\ \A j \in DOMAIN Pre.jobs : j \in DOMAIN jobs /\ jobs[j] = Pre.jobs[j]
\* job 0 has ended and its id has been given to the next job launched
\* (pid_to_info still has the process of the ended job)
C29_Witness ==
  /\ IsRegisteringStep(last) /\ wpc = "run" /\ fg # None
  /\ DOMAIN jobs = {0} /\ jobs[0] = fg[1]
  /\ \E p \in DOMAIN pid_to_info : p # fg[1]

\* the status wait_child records for the end n of a process
EndStatus(n) == IF n.kind = "Exited" THEN n.val ELSE 128 + n.val
\* the ends, reaped in this step, of the only process of the job that was
\* in the foreground when the step started
FgEnds(step) ==
  {n \in TermNotes(step) :
     /\ n.job # None /\ Pre.fg = Some(n.job[1].pgid)
     /\ Pre.pgid_to_pids[n.job[1].pgid].pids = {n.pid}}

\* C30: when a wait_child step reaps the end of the last process of the
\* foreground job, the one message of the step is Continue with the exit
\* status of that process, or with 128 + the number of the signal that
\* killed it.
C30_StatusInContinue ==
  (last.op = "wait_child" /\ FgEnds(last) # {}) =>
    \A n \in FgEnds(last) : last.sent = <<Continue(EndStatus(n))>>
\* the foreground process has been killed by SIGINT and the front end got
\* Continue(130)
C30_Witness ==
  /\ last.op = "wait_child" /\ wpc = "run" /\ fg = None
  /\ \E n \in TermNotes(last) : n.job # None /\ n.kind = "Signaled"
  /\ last.sent = <<Continue(128 + SIGINT)>>

\* the ends reaped in this step that are the exit(1) of a failed execvp
ExecFailNotes(step) ==
  {n \in step.notes : n.kind = "Exited" /\ n.val = ExecFailStatus}

\* C31: a failed execvp in the child is no launch failure.  The launch step
\* of a foreground command whose fork succeeded registers the job with the
\* forked process, sets fg to its group and sends nothing, whatever execvp
\* will do in the child; the failure comes as an Exited status 1 in a later
\* wait_child step, which, when the process is the only one of the
\* foreground job, removes the job, sets fg to None and sends exactly
\* Continue(1).
C31_ExecFailure ==
  /\ (IsRegisteringStep(last) /\ wpc = "run") =>
       /\ fg = Some(Leader(last))
       /\ Leader(last) \in DOMAIN pgid_to_pids
       /\ Leader(last) \in pgid_to_pids[Leader(last)].pids
       /\ pgid_to_pids[Leader(last)].job_id \in DOMAIN jobs \ DOMAIN Pre.jobs
       /\ procs[Leader(last)].st = "run"
       /\ last.sent = <<>>
  /\ last.op = "wait_child" =>
       \A n \in ExecFailNotes(last) \cap FgEnds(last) :
         /\ n.job[1].job_id \notin DOMAIN jobs
         /\ n.job[1].pgid \notin DOMAIN pgid_to_pids
         /\ fg = None /\ tty = ShellPgid
         /\ last.sent = <<Continue(ExecFailStatus)>>
\* the exit(1) of the foreground job's process has been reaped: the job is
\* gone and the front end has got Continue(1)
C31_Witness ==
  /\ last.op = "wait_child" /\ wpc = "run" /\ fg = None /\ jobs = EmptyMap
  /\ \E n \in ExecFailNotes(last) : n.job # None
  /\ last.sent = <<Continue(ExecFailStatus)>>
  /\ shell_pc = "read"

\* C32: a process that execs a stage with an output redirection has the
\* redirect target as its standard output at that moment, for each of the
\* three kinds: the plain kind has opened it create/truncate, the append
\* kind in append mode, and the combined kind has it as standard error too.
C32_Redirection ==
  \A c \in last.created :
    (c.stage # 0 /\ c.redirect # None) =>
      /\ c.fds.stdout.kind = "file"
      /\ c.redirect = Some("StdOut") => {"O_CREAT", "O_TRUNC"} \subseteq c.fds.stdout.flags
      /\ c.redirect = Some("Append") => "O_APPEND" \in c.fds.stdout.flags
      /\ c.redirect = Some("Both") => c.fds.stderr = c.fds.stdout

\* the processes of a launch are wired as a pipeline of n stages: one
\* process execs each stage, and each stage but the last writes into the
\* pipe the next stage reads from
Wired(created, n) ==
  /\ Cardinality(created) = n
  /\ {c.stage : c \in created} = 1..n
  /\ \A a, b \in created :
       b.stage = a.stage + 1 =>
         /\ a.fds.stdout.kind = "pipe_write"
         /\ b.fds.stdin = PipeRead(a.fds.stdout.id)

\* C33: a launch of a pipeline of n stages whose first fork succeeded has
\* made exactly n processes, one executing each stage, every consecutive
\* pair joined by a pipe of its own, and all of them in one process group
\* whose id is the pid of the first process made (no group of the shell).
C33_Pipeline ==
  (last.op = "spawn_child" /\ last.created # {}) =>
    /\ Wired(last.created, last.job.n)
    /\ \A c \in last.created : c.pgid = Leader(last) /\ c.pgid # ShellPgid
\* the same, for the launches in which every fork succeeded
C33_AllForksSucceed ==
  AllForked(last) =>
    /\ Wired(last.created, last.job.n)
    /\ \A c \in last.created : c.pgid = Leader(last) /\ c.pgid # ShellPgid

\* C34: the reply to the "exit" the front end submits at end of input is
\* always Quit, with stopped jobs in the table too: when the Worker runs
\* that exit while the main thread waits for its answer (no job in the
\* foreground, nothing else on its way to the main thread), the main
\* thread takes a Quit and ends, and never
\* reaches panic!("failed to exit").
C34_EofGetsQuit ==
  (Pre.shell_pc = "recv_eof" /\ Pre.out = <<>> /\ Pre.fg = None /\ last.op = "Exit")
    => (last.sent = <<Quit(last.sent[1].val)>> /\ shell_pc = "done")

\* the group the terminal belongs to according to fg
FgOwner(f) == IF f = None THEN ShellPgid ELSE f[1]

\* C35: while the Worker thread runs, the foreground process group the
\* Worker has set on the terminal is the one fg names: the job's group when
\* fg is Some(pgid), the shell's own group when fg is None.  No Worker step
\* changes fg without the terminal, or the terminal without fg.
C35_TtyFollowsFg ==
  wpc = "run" =>
    /\ tty = FgOwner(fg)
    /\ last.op # "" => ((fg # Pre.fg) <=> (tty # Pre.tty))
\* fg n has given the terminal to the group of the job it names
C35_Witness ==
  /\ last.op = "Fg" /\ wpc = "run"
  /\ fg # None /\ tty = fg[1] /\ tty # ShellPgid

\* C36: the state change of a launched foreground child is never reaped
\* before its job is registered.  The launch step reaps nothing and ends
\* with the child registered (in pid_to_info and in the member set of its
\* job) and its status, if it has one already, still to be collected; and
\* every status a wait_child step collects for the process fg names is that
\* of a pid the registry knows, never dropped as unknown.
C36_RegisteredBeforeReaped ==
  /\ (IsRegisteringStep(last) /\ wpc = "run") =>
       /\ last.notes = {}
       /\ Leader(last) \in DOMAIN pid_to_info
       /\ Leader(last) \in Members
       /\ procs[Leader(last)].st # "free"
  /\ last.op = "wait_child" =>
       \A n \in last.notes :
         Pre.fg = Some(n.pid) => (n.job # None /\ n.pid \in DOMAIN Pre.pid_to_info)
\* the exit of the foreground child has been collected as that of a known
\* pid: its job is gone and the front end has the status
C36_Witness ==
  /\ last.op = "wait_child" /\ wpc = "run"
  /\ \E n \in TermNotes(last) :
       /\ n.kind = "Exited" /\ n.val \in ChildStatus /\ n.job # None
       /\ n.job[1].pgid = n.pid
       /\ last.sent = <<Continue(n.val)>>
  /\ fg = None

\* C37: a wait_child step that collects statuses only of pids absent from
\* pid_to_info, a Stopped one as much as an Exited one, leaves the Worker
\* thread alive and jobs, pgid_to_pids, pid_to_info and fg unchanged.
C37_UnknownPidBenign ==
  (/\ last.op = "wait_child" /\ last.notes # {}
   /\ \A n \in last.notes : n.pid \notin DOMAIN Pre.pid_to_info)
    => /\ wpc = "run"
       /\ jobs = Pre.jobs /\ pgid_to_pids = Pre.pgid_to_pids
       /\ pid_to_info = Pre.pid_to_info /\ fg = Pre.fg

\* when the step started, the registry had every process of the job of
\* group pgid as Stop, and the processes were stopped
FullyStopped(pgid) ==
  /\ pgid \in DOMAIN Pre.pgid_to_pids
  /\ \A p \in Pre.pgid_to_pids[pgid].pids :
       Pre.pid_to_info[p].state = "Stop" /\ Pre.procs[p].st = "stop"
\* exactly one message, a Continue
OneContinue(sent) == Len(sent) = 1 /\ sent[1].type = "Continue"

====
